---- MODULE Spec2Model ----
(***************************************************************************)
(* Model of walk-packages-for-changelog.py: the changelog reconstruction   *)
(* loop of get_changelog and the markup rewriter fix_line.                 *)
(*                                                                         *)
(* A Python string is a sequence of one-character strings.  The text that  *)
(* git diff printed is held as the list str.splitlines() returns.          *)
(***************************************************************************)
EXTENDS Integers, Sequences, FiniteSets, TLC

VARIABLES
    \* get_changelog
    rc,                 \* p.returncode of the git diff process
    changelog_string,   \* the decoded diff output, as changelog_string.splitlines()
    idx,                \* position of the for loop: index of the next line
    line_buffer,        \* the entry being assembled
    changelog_list,     \* the entries appended so far
    contributors,       \* the contributor names collected so far
    pc,                 \* "start", "loop", "flush", "post", "done"
    result,             \* the value get_changelog returns
    flushed,            \* history: every line_buffer handed to a flush, in order
    fix_calls,          \* history: every argument handed to fix_line, in order
    \* fix_line
    instring,           \* the argument of fix_line
    chars,              \* the string the for loop walks (double_underscore)
    pos,                \* index of the next character of chars
    state,              \* the scanner state
    output,             \* the output built so far
    tickbuf,            \* the span accumulated so far
    fpc,                \* "call", "scan", "end", "done", "idle"
    fresult             \* the value fix_line returns

gcvars == <<rc, changelog_string, idx, line_buffer, changelog_list,
            contributors, pc, result, flushed, fix_calls>>
flvars == <<instring, chars, pos, state, output, tickbuf, fpc, fresult>>
vars == <<rc, changelog_string, idx, line_buffer, changelog_list,
          contributors, pc, result, flushed, fix_calls,
          instring, chars, pos, state, output, tickbuf, fpc, fresult>>

(***************************************************************************)
(* Bounds of the model.                                                    *)
(***************************************************************************)
MaxLines == 3      \* lines in a diff text
MaxTokens == 4     \* pieces of text and spans in an entry handed to fix_line
MaxLen == 7        \* characters in an argument of fix_line

(***************************************************************************)
(* Python string primitives.                                               *)
(***************************************************************************)
Min(a, b) == IF a < b THEN a ELSE b

\* str.isspace for one character
IsSpace(c) == c \in {" ", "\t", "\n"}

\* line.isspace(): non-empty and every character is whitespace
isspace(s) == Len(s) > 0 /\ \A i \in 1..Len(s) : IsSpace(s[i])

RECURSIVE lstrip(_)
lstrip(s) ==
    IF s = <<>> THEN <<>>
    ELSE IF IsSpace(s[1]) THEN lstrip(Tail(s))
    ELSE s

RECURSIVE rstrip(_)
rstrip(s) ==
    IF s = <<>> THEN <<>>
    ELSE IF IsSpace(s[Len(s)]) THEN rstrip(SubSeq(s, 1, Len(s) - 1))
    ELSE s

strip(s) == rstrip(lstrip(s))

\* s[0:n]
Slice0(s, n) == SubSeq(s, 1, Min(n, Len(s)))

\* s.split(sep_char): always at least one piece
RECURSIVE split(_, _)
split(s, sep) ==
    IF \A i \in 1..Len(s) : s[i] # sep THEN <<s>>
    ELSE LET k == CHOOSE i \in 1..Len(s) :
                     s[i] = sep /\ \A j \in 1..(i - 1) : s[j] # sep
         IN  <<SubSeq(s, 1, k - 1)>> \o split(SubSeq(s, k + 1, Len(s)), sep)

\* sep.join(list)
RECURSIVE join(_, _)
join(sep, list) ==
    IF list = <<>> THEN <<>>
    ELSE IF Len(list) = 1 THEN list[1]
    ELSE list[1] \o sep \o join(sep, Tail(list))

\* The backtick character.  A TLA+ string literal cannot hold a backtick, so
\* the model writes it as an apostrophe; no other apostrophe occurs.
Tick == "'"

\* Code points order the characters the model uses.
AsciiOrder ==
    <<"\t", "\n", " ", "(", ")", "*", "+", ",", "-", ".", "0", "1", "2", ":",
      "@", "A", "B", "C", "\\", "_", Tick, "a", "b", "c", "i", "n", "o", "r",
      "s", "t", "u", "x">>

Ord(c) == CHOOSE i \in 1..Len(AsciiOrder) : AsciiOrder[i] = c

\* a < b for Python strings
RECURSIVE StrLess(_, _)
StrLess(a, b) ==
    IF b = <<>> THEN FALSE
    ELSE IF a = <<>> THEN TRUE
    ELSE IF a[1] # b[1] THEN Ord(a[1]) < Ord(b[1])
    ELSE StrLess(Tail(a), Tail(b))

\* set(list)
ToSet(list) == {list[i] : i \in 1..Len(list)}

\* sorted(S) for a set of strings
RECURSIVE sorted(_)
sorted(S) ==
    IF S = {} THEN <<>>
    ELSE LET m == CHOOSE x \in S : \A y \in S \ {x} : StrLess(x, y)
         IN  <<m>> \o sorted(S \ {m})

(***************************************************************************)
(* get_contrib_from_line                                                   *)
(***************************************************************************)
\* The literal head of the pattern '^\* Contributors: (.*)'
ContribPrefix ==
    <<"*", " ", "C", "o", "n", "t", "r", "i", "b", "u", "t", "o", "r", "s",
      ":", " ">>

\* re.match(r'^\* Contributors: (.*)', instring): the pattern matches exactly
\* the strings that start with the literal head; (.*) takes the rest of the
\* string, which holds no line break
contrib_match(s) == Slice0(s, Len(ContribPrefix)) = ContribPrefix

get_contrib_from_line(s) ==
    IF ~contrib_match(s) THEN <<>>
    ELSE LET group == SubSeq(s, Len(ContribPrefix) + 1, Len(s))
             pieces == split(group, ",")
         IN  [i \in 1..Len(pieces) |-> strip(pieces[i])]

(***************************************************************************)
(* fix_line                                                                *)
(***************************************************************************)
HasTick(s) == \E i \in 1..Len(s) : s[i] = Tick

\* double_and_triple_ticks without the '$' alternative: a backtick that ends
\* the string stays single
RECURSIVE double_and_triple_ticks_inner(_)
double_and_triple_ticks_inner(s) ==
    IF s = <<>> THEN <<>>
    ELSE IF s[1] = Tick /\ Len(s) >= 2 /\ s[2] # Tick
         THEN <<Tick, Tick, s[2]>>
                  \o double_and_triple_ticks_inner(SubSeq(s, 3, Len(s)))
    ELSE <<s[1]>> \o double_and_triple_ticks_inner(Tail(s))

\* re.sub(r'T(?:([^T])|$)', r'TT\1', instring), T the backtick
RECURSIVE double_and_triple_ticks(_)
double_and_triple_ticks(s) ==
    IF s = <<>> THEN <<>>
    ELSE IF s[1] = Tick /\ Len(s) = 1 THEN <<Tick, Tick>>
    ELSE IF s[1] = Tick /\ s[2] # Tick
         THEN <<Tick, Tick, s[2]>> \o double_and_triple_ticks(SubSeq(s, 3, Len(s)))
    ELSE <<s[1]>> \o double_and_triple_ticks(Tail(s))

\* double_ticks that rewrites only a run of exactly three backticks
RECURSIVE double_ticks_exact(_)
double_ticks_exact(s) ==
    IF s = <<>> THEN <<>>
    ELSE IF s[1] = Tick
         THEN LET n == CHOOSE n \in 1..Len(s) :
                           /\ \A i \in 1..n : s[i] = Tick
                           /\ n = Len(s) \/ s[n + 1] # Tick
              IN  (IF n = 3 THEN <<Tick, Tick>> ELSE SubSeq(s, 1, n))
                      \o double_ticks_exact(SubSeq(s, n + 1, Len(s)))
    ELSE <<s[1]>> \o double_ticks_exact(Tail(s))

\* re.sub(r'TTT', r'TT', double_and_triple_ticks)
RECURSIVE double_ticks(_)
double_ticks(s) ==
    IF s = <<>> THEN <<>>
    ELSE IF Len(s) >= 3 /\ s[1] = Tick /\ s[2] = Tick /\ s[3] = Tick
         THEN <<Tick, Tick>> \o double_ticks(SubSeq(s, 4, Len(s)))
    ELSE <<s[1]>> \o double_ticks(Tail(s))

\* double_underscore without the look at the character after the underscore
RECURSIVE double_underscore_always(_)
double_underscore_always(s) ==
    IF s = <<>> THEN <<>>
    ELSE IF Len(s) >= 2 /\ s[1] = Tick /\ s[2] = "_"
         THEN <<Tick, "_", "_">> \o double_underscore_always(SubSeq(s, 3, Len(s)))
    ELSE <<s[1]>> \o double_underscore_always(Tail(s))

\* re.sub(r'T_(?:([^_])|$)', r'T__\1', double_ticks)
RECURSIVE double_underscore(_)
double_underscore(s) ==
    IF s = <<>> THEN <<>>
    ELSE IF Len(s) = 2 /\ s[1] = Tick /\ s[2] = "_" THEN <<Tick, "_", "_">>
    ELSE IF Len(s) >= 3 /\ s[1] = Tick /\ s[2] = "_" /\ s[3] # "_"
         THEN <<Tick, "_", "_", s[3]>> \o double_underscore(SubSeq(s, 4, Len(s)))
    ELSE <<s[1]>> \o double_underscore(Tail(s))

REGULAR_CHAR_STATE == 0
SAW_ONE_LEADING_TICK_STATE == 1
SAW_TWO_LEADING_TICKS_STATE == 2
SAW_ONE_TRAILING_TICK_STATE == 3
SAW_TWO_TRAILING_TICKS_STATE == 4

ScanStates == 0..4

\* The scanner before the first character
ScanStart == [state |-> REGULAR_CHAR_STATE, output |-> <<>>, tickbuf |-> <<>>]

\* One turn of the loop 'for c in double_underscore'
ScanStep(sc, c) ==
    IF sc.state = REGULAR_CHAR_STATE THEN
        IF c = Tick
        THEN [sc EXCEPT !.state = SAW_ONE_LEADING_TICK_STATE]
        ELSE [sc EXCEPT !.output = @ \o <<c>>]
    ELSE IF sc.state = SAW_ONE_LEADING_TICK_STATE THEN
        IF c = Tick
        THEN [sc EXCEPT !.state = SAW_TWO_LEADING_TICKS_STATE]
        ELSE [sc EXCEPT !.output = @ \o <<Tick, c>>,
                        !.state = REGULAR_CHAR_STATE]
    ELSE IF sc.state = SAW_TWO_LEADING_TICKS_STATE THEN
        IF c = Tick
        THEN IF sc.tickbuf = <<>>
             THEN [sc EXCEPT !.output = @ \o <<Tick>>]
             ELSE [sc EXCEPT !.state = SAW_ONE_TRAILING_TICK_STATE]
        ELSE [sc EXCEPT !.tickbuf = @ \o <<c>>]
    ELSE IF sc.state = SAW_ONE_TRAILING_TICK_STATE THEN
        IF c = Tick
        THEN [sc EXCEPT !.state = SAW_TWO_TRAILING_TICKS_STATE]
        ELSE [state |-> REGULAR_CHAR_STATE,
              output |-> sc.output \o <<Tick, Tick>> \o sc.tickbuf \o <<Tick>>,
              tickbuf |-> <<>>]
    ELSE \* SAW_TWO_TRAILING_TICKS_STATE
        IF c = "_"
        THEN [state |-> REGULAR_CHAR_STATE,
              output |-> sc.output \o <<Tick>> \o sc.tickbuf \o <<Tick, "_">>,
              tickbuf |-> <<>>]
        ELSE [state |-> REGULAR_CHAR_STATE,
              output |-> sc.output \o <<Tick, Tick>> \o sc.tickbuf
                             \o <<Tick, Tick, c>>,
              tickbuf |-> <<>>]

\* ScanFinish that leaves the pending span out
ScanFinishDropsPending(sc) == rstrip(sc.output)

\* ScanFinish that emits the pending span only while the span is still open
ScanFinishOpenOnly(sc) ==
    rstrip(IF sc.tickbuf # <<>> /\ sc.state = SAW_TWO_LEADING_TICKS_STATE
           THEN sc.output \o <<Tick, Tick>> \o sc.tickbuf \o <<Tick, Tick>>
           ELSE sc.output)

\* The statements after the loop: the pending span, then output.rstrip()
ScanFinish(sc) ==
    rstrip(IF sc.tickbuf # <<>>
           THEN sc.output \o <<Tick, Tick>> \o sc.tickbuf \o <<Tick, Tick>>
           ELSE sc.output)

\* The whole loop over s, from scanner sc
RECURSIVE ScanAll(_, _)
ScanAll(sc, s) ==
    IF s = <<>> THEN sc ELSE ScanAll(ScanStep(sc, s[1]), Tail(s))

fix_line(s) ==
    IF ~HasTick(s) THEN s
    ELSE ScanFinish(ScanAll(ScanStart,
             double_underscore(double_ticks(double_and_triple_ticks(s)))))

(***************************************************************************)
(* get_changelog                                                           *)
(***************************************************************************)
\* The tag get_old_version returned
old_version == <<"1", ".", "0">>

\* star_fix_re = re.compile(r'\*\.'); re.sub(star_fix_re, r'\*.', s) writes a
\* backslash before every '*.'
RECURSIVE star_fix(_)
star_fix(s) ==
    IF s = <<>> THEN <<>>
    ELSE IF Len(s) >= 2 /\ s[1] = "*" /\ s[2] = "."
         THEN <<"\\", "*", ".">> \o star_fix(SubSeq(s, 3, Len(s)))
    ELSE <<s[1]>> \o star_fix(Tail(s))

\* Items of a regular expression: a literal character, '.', or [0-9]
Lit(c) == [kind |-> "lit", ch |-> c]
AnyChar == [kind |-> "any", ch |-> ""]
Digit == [kind |-> "digit", ch |-> ""]

Digits == {"0", "1", "2", "3", "4", "5", "6", "7", "8", "9"}

ItemMatches(it, c) ==
    IF it.kind = "lit" THEN c = it.ch
    ELSE IF it.kind = "any" THEN c # "\n"
    ELSE c \in Digits

\* old_version is pasted into the pattern unescaped: its '.' is the regular
\* expression '.', its digits are literals
VersionPattern ==
    [i \in 1..Len(old_version) |->
        IF old_version[i] = "." THEN AnyChar ELSE Lit(old_version[i])]

\* r' %s \([0-9]{4}-[0-9]{2}-[0-9]{2}\)' % (old_version)
BoundaryPattern ==
    <<Lit(" ")>> \o VersionPattern \o
    <<Lit(" "), Lit("("), Digit, Digit, Digit, Digit, Lit("-"),
      Digit, Digit, Lit("-"), Digit, Digit, Lit(")")>>

\* re.match(pattern, line): the pattern matches a prefix of line
boundary_match(line) ==
    /\ Len(line) >= Len(BoundaryPattern)
    /\ \A i \in 1..Len(BoundaryPattern) : ItemMatches(BoundaryPattern[i], line[i])

\* len(line) == 0 or line.isspace()
IsBlank(line) == Len(line) = 0 \/ isspace(line)

\* The branch of the loop body a line takes, in the order the code tests
LineClass(line) ==
    IF IsBlank(line) THEN "blank"
    ELSE IF boundary_match(line) THEN "boundary"
    ELSE IF Len(line) = 1 THEN "short"
    ELSE IF Slice0(line, 2) = <<" ", "*">> THEN "bullet"
    ELSE IF Slice0(line, 2) = <<" ", " ">> THEN "continuation"
    ELSE "other"

\* The values get_changelog returns
Pending == [kind |-> "pending", cooked_changelog |-> <<>>, contributors |-> <<>>]
NO_ENTRIES == [kind |-> "none", cooked_changelog |-> <<>>, contributors |-> <<>>]

\* ContribEntry without sorted(set(...)): the names as collected
ContribEntryUnsorted(names) == ContribPrefix \o join(<<",", " ">>, names)

\* The synthesized last entry
ContribEntry(names) == ContribPrefix \o join(<<",", " ">>, sorted(ToSet(names)))

\* '\n'.join(changelog_list) + '\n\n\n'
Cook(list) == join(<<"\n">>, list) \o <<"\n", "\n", "\n">>

(***************************************************************************)
(* The diff texts and fix_line arguments the model runs on.                *)
(***************************************************************************)
LineEmpty == <<>>
LineSpaces == <<" ", " ">>
LinePlus == <<"+">>
LineHunk == <<"@", "@">>
LineBulletA == <<" ", "*", " ", "a">>
LineBulletLink == <<" ", "*", " ", Tick, "b", Tick, "_">>
LineBulletStar == <<" ", "*", ".", "a", " ">>
LineCont == <<" ", " ", "c">>
LineContribBA ==
    <<" ">> \o ContribPrefix \o <<"B", ",", " ", "A">>
LineContribNone == <<" ">> \o ContribPrefix
LineBoundary ==
    <<" ", "1", ".", "0", " ", "(", "2", "0", "2", "0", "-", "0", "1", "-",
      "0", "1", ")">>

\* A release header of another version, which the '.' of old_version matches
LineBoundaryOther ==
    <<" ", "1", "x", "0", " ", "(", "2", "0", "2", "0", "-", "0", "1", "-",
      "0", "1", ")">>
\* The release header of old_version with text after the date
LineBoundaryTail == LineBoundary \o <<"x">>

LinePool ==
    {LineEmpty, LineSpaces, LinePlus, LineHunk, LineBulletA, LineBulletLink,
     LineBulletStar, LineCont, LineContribBA, LineContribNone, LineBoundary,
     LineBoundaryOther, LineBoundaryTail}

DiffTexts == UNION {[1..n -> LinePool] : n \in 0..MaxLines}

FixChars == {Tick, "_", "a", " "}

FixInputs == UNION {[1..n -> FixChars] : n \in 0..MaxLen}

(***************************************************************************)
(* get_changelog as a state machine.                                       *)
(***************************************************************************)
FixIdle ==
    /\ instring = <<>>
    /\ chars = <<>>
    /\ pos = 1
    /\ state = REGULAR_CHAR_STATE
    /\ output = <<>>
    /\ tickbuf = <<>>
    /\ fpc = "idle"
    /\ fresult = <<>>

Init ==
    /\ rc \in {0, 1}
    /\ changelog_string \in DiffTexts
    /\ rc # 0 => changelog_string = <<>>
    /\ idx = 1
    /\ line_buffer = <<>>
    /\ changelog_list = <<>>
    /\ contributors = <<>>
    /\ pc = "start"
    /\ result = Pending
    /\ flushed = <<>>
    /\ fix_calls = <<>>
    /\ FixIdle

\* git diff has run: a failure returns None, None
RunDiff ==
    /\ pc = "start"
    /\ IF rc # 0
       THEN /\ pc' = "done"
            /\ result' = NO_ENTRIES
       ELSE /\ pc' = "loop"
            /\ result' = result
    /\ UNCHANGED <<rc, changelog_string, idx, line_buffer, changelog_list,
                   contributors, flushed, fix_calls>>
    /\ UNCHANGED flvars

InLoop(class) ==
    /\ pc = "loop"
    /\ idx <= Len(changelog_string)
    /\ LineClass(changelog_string[idx]) = class

\* 'continue' and the fall through at the end of the loop body
NextLine ==
    /\ idx' = idx + 1
    /\ UNCHANGED <<rc, changelog_string, pc, result>>
    /\ UNCHANGED flvars

ScanBlank ==
    /\ InLoop("blank")
    /\ NextLine
    /\ UNCHANGED <<line_buffer, changelog_list, contributors, flushed, fix_calls>>

\* ScanBoundary with 'continue' in place of 'break'
ScanBoundarySkips ==
    /\ InLoop("boundary")
    /\ NextLine
    /\ UNCHANGED <<line_buffer, changelog_list, contributors, flushed, fix_calls>>

\* 'break'
ScanBoundary ==
    /\ InLoop("boundary")
    /\ pc' = "flush"
    /\ UNCHANGED <<rc, changelog_string, idx, line_buffer, changelog_list,
                   contributors, result, flushed, fix_calls>>
    /\ UNCHANGED flvars

ScanShort ==
    /\ InLoop("short")
    /\ NextLine
    /\ UNCHANGED <<line_buffer, changelog_list, contributors, flushed, fix_calls>>

\* FlushBuffer that appends the buffer to the entries whatever it matches
FlushBufferKeepsAll ==
    IF line_buffer # <<>>
    THEN LET current_contrib == get_contrib_from_line(line_buffer)
         IN  /\ flushed' = Append(flushed, line_buffer)
             /\ changelog_list' = Append(changelog_list, fix_line(line_buffer))
             /\ fix_calls' = Append(fix_calls, line_buffer)
             /\ contributors' = contributors \o current_contrib
    ELSE UNCHANGED <<changelog_list, contributors, flushed, fix_calls>>

\* 'if line_buffer:' and the flush under it
FlushBuffer ==
    IF line_buffer # <<>>
    THEN LET current_contrib == get_contrib_from_line(line_buffer)
         IN  /\ flushed' = Append(flushed, line_buffer)
             /\ IF current_contrib # <<>>
                THEN /\ contributors' = contributors \o current_contrib
                     /\ UNCHANGED <<changelog_list, fix_calls>>
                ELSE /\ changelog_list' = Append(changelog_list, fix_line(line_buffer))
                     /\ fix_calls' = Append(fix_calls, line_buffer)
                     /\ UNCHANGED contributors
    ELSE UNCHANGED <<changelog_list, contributors, flushed, fix_calls>>

ScanBullet ==
    /\ InLoop("bullet")
    /\ FlushBuffer
    /\ line_buffer' = star_fix(lstrip(changelog_string[idx]))
    /\ NextLine

\* ScanContinuation without the test 'if line_buffer:'
ScanContinuationOpensEntry ==
    /\ InLoop("continuation")
    /\ line_buffer' = line_buffer \o <<" ">>
                          \o star_fix(lstrip(changelog_string[idx]))
    /\ NextLine
    /\ UNCHANGED <<changelog_list, contributors, flushed, fix_calls>>

\* ScanContinuation that leaves a contributor entry as it is
ScanContinuationSkipsContrib ==
    /\ InLoop("continuation")
    /\ IF line_buffer # <<>> /\ ~contrib_match(line_buffer)
       THEN line_buffer' = line_buffer \o <<" ">>
                               \o star_fix(lstrip(changelog_string[idx]))
       ELSE line_buffer' = line_buffer
    /\ NextLine
    /\ UNCHANGED <<changelog_list, contributors, flushed, fix_calls>>

\* ScanContinuation that joins without the space
ScanContinuationNoSpace ==
    /\ InLoop("continuation")
    /\ IF line_buffer # <<>>
       THEN line_buffer' = line_buffer \o star_fix(lstrip(changelog_string[idx]))
       ELSE line_buffer' = line_buffer
    /\ NextLine
    /\ UNCHANGED <<changelog_list, contributors, flushed, fix_calls>>

ScanContinuation ==
    /\ InLoop("continuation")
    /\ IF line_buffer # <<>>
       THEN line_buffer' = line_buffer \o <<" ">>
                               \o star_fix(lstrip(changelog_string[idx]))
       ELSE line_buffer' = line_buffer
    /\ NextLine
    /\ UNCHANGED <<changelog_list, contributors, flushed, fix_calls>>

ScanOther ==
    /\ InLoop("other")
    /\ NextLine
    /\ UNCHANGED <<line_buffer, changelog_list, contributors, flushed, fix_calls>>

\* The for loop runs out of lines
EndOfInput ==
    /\ pc = "loop"
    /\ idx > Len(changelog_string)
    /\ pc' = "flush"
    /\ UNCHANGED <<rc, changelog_string, idx, line_buffer, changelog_list,
                   contributors, result, flushed, fix_calls>>
    /\ UNCHANGED flvars

\* FlushLast without the flush: the buffer open at the end is left behind
FlushLastSkips ==
    /\ pc = "flush"
    /\ pc' = "post"
    /\ UNCHANGED <<rc, changelog_string, idx, line_buffer, changelog_list,
                   contributors, result, flushed, fix_calls>>
    /\ UNCHANGED flvars

\* Flush out the last buffer
FlushLast ==
    /\ pc = "flush"
    /\ FlushBuffer
    /\ pc' = "post"
    /\ UNCHANGED <<rc, changelog_string, idx, line_buffer, result>>
    /\ UNCHANGED flvars

\* PostProcess without the test for an empty entry list
PostProcessNoEmptyTest ==
    /\ pc = "post"
    /\ pc' = "done"
    /\ LET list == IF contributors # <<>>
                   THEN Append(changelog_list, ContribEntry(contributors))
                   ELSE changelog_list
       IN  /\ changelog_list' = list
           /\ result' = [kind |-> "ok", cooked_changelog |-> Cook(list),
                         contributors |-> contributors]
    /\ UNCHANGED <<rc, changelog_string, idx, line_buffer, contributors,
                   flushed, fix_calls>>
    /\ UNCHANGED flvars

\* The empty test, the synthesized entry, the join and the return
PostProcess ==
    /\ pc = "post"
    /\ pc' = "done"
    /\ IF Len(changelog_list) = 0
       THEN /\ result' = NO_ENTRIES
            /\ changelog_list' = changelog_list
       ELSE LET list == IF contributors # <<>>
                        THEN Append(changelog_list, ContribEntry(contributors))
                        ELSE changelog_list
            IN  /\ changelog_list' = list
                /\ result' = [kind |-> "ok", cooked_changelog |-> Cook(list),
                              contributors |-> contributors]
    /\ UNCHANGED <<rc, changelog_string, idx, line_buffer, contributors,
                   flushed, fix_calls>>
    /\ UNCHANGED flvars

Next ==
    \/ RunDiff
    \/ ScanBlank
    \/ ScanBoundary
    \/ ScanShort
    \/ ScanBullet
    \/ ScanContinuation
    \/ ScanOther
    \/ EndOfInput
    \/ FlushLast
    \/ PostProcess

Spec == Init /\ [][Next]_vars

(***************************************************************************)
(* fix_line as a state machine, one character of the loop per step.        *)
(***************************************************************************)
ChangelogIdle ==
    /\ rc = 0
    /\ changelog_string = <<>>
    /\ idx = 1
    /\ line_buffer = <<>>
    /\ changelog_list = <<>>
    /\ contributors = <<>>
    /\ pc = "idle"
    /\ result = Pending
    /\ flushed = <<>>
    /\ fix_calls = <<>>

InitFix ==
    /\ instring \in FixInputs
    /\ chars = <<>>
    /\ pos = 1
    /\ state = REGULAR_CHAR_STATE
    /\ output = <<>>
    /\ tickbuf = <<>>
    /\ fpc = "call"
    /\ fresult = <<>>
    /\ ChangelogIdle

\* FixFast that strips trailing whitespace as the slow path does
FixFastStripped ==
    /\ fpc = "call"
    /\ ~HasTick(instring)
    /\ fresult' = rstrip(instring)
    /\ fpc' = "done"
    /\ UNCHANGED <<instring, chars, pos, state, output, tickbuf>>
    /\ UNCHANGED gcvars

\* Rule 5: no backtick, no transformation
FixFast ==
    /\ fpc = "call"
    /\ ~HasTick(instring)
    /\ fresult' = instring
    /\ fpc' = "done"
    /\ UNCHANGED <<instring, chars, pos, state, output, tickbuf>>
    /\ UNCHANGED gcvars

\* The three re.sub calls and the scanner's initial values
FixSubs ==
    /\ fpc = "call"
    /\ HasTick(instring)
    /\ chars' = double_underscore(double_ticks(double_and_triple_ticks(instring)))
    /\ pos' = 1
    /\ state' = ScanStart.state
    /\ output' = ScanStart.output
    /\ tickbuf' = ScanStart.tickbuf
    /\ fpc' = "scan"
    /\ UNCHANGED <<instring, fresult>>
    /\ UNCHANGED gcvars

\* One turn of 'for c in double_underscore'
ScanChar ==
    /\ fpc = "scan"
    /\ pos <= Len(chars)
    /\ LET sc == ScanStep([state |-> state, output |-> output,
                           tickbuf |-> tickbuf], chars[pos])
       IN  /\ state' = sc.state
           /\ output' = sc.output
           /\ tickbuf' = sc.tickbuf
    /\ pos' = pos + 1
    /\ UNCHANGED <<instring, chars, fpc, fresult>>
    /\ UNCHANGED gcvars

\* The loop is over: flush the pending span, rstrip, return
FixEnd ==
    /\ fpc = "scan"
    /\ pos > Len(chars)
    /\ fresult' = ScanFinish([state |-> state, output |-> output,
                              tickbuf |-> tickbuf])
    /\ fpc' = "done"
    /\ UNCHANGED <<instring, chars, pos, state, output, tickbuf>>
    /\ UNCHANGED gcvars

NextFix ==
    \/ FixFast
    \/ FixSubs
    \/ ScanChar
    \/ FixEnd

SpecFix == InitFix /\ [][NextFix]_vars

(***************************************************************************)
(* fix_line on entries built from plain text and spans.                    *)
(***************************************************************************)
\* Plain characters, an emphasis span, a literal span, a named and an
\* anonymous hyperlink span (rules 1 to 4 of the comment above fix_line)
EntryTokens ==
    {<<"a">>, <<" ">>, <<"_">>,
     <<Tick, "a", Tick>>,
     <<Tick, Tick, "a", Tick, Tick>>,
     <<Tick, "a", Tick, "_">>,
     <<Tick, "a", Tick, "_", "_">>}

EntryInputs ==
    {join(<<>>, t) : t \in UNION {[1..n -> EntryTokens] : n \in 0..MaxTokens}}

InitEntry ==
    /\ instring \in EntryInputs
    /\ chars = <<>>
    /\ pos = 1
    /\ state = REGULAR_CHAR_STATE
    /\ output = <<>>
    /\ tickbuf = <<>>
    /\ fpc = "call"
    /\ fresult = <<>>
    /\ ChangelogIdle

SpecEntry == InitEntry /\ [][NextFix]_vars

(***************************************************************************)
(* The scanner loop of fix_line taken alone, on any string, whether or not *)
(* the three substitutions can produce it.                                 *)
(***************************************************************************)
InitScan ==
    /\ instring = <<>>
    /\ chars \in FixInputs
    /\ pos = 1
    /\ state = ScanStart.state
    /\ output = ScanStart.output
    /\ tickbuf = ScanStart.tickbuf
    /\ fpc = "scan"
    /\ fresult = <<>>
    /\ ChangelogIdle

NextScan ==
    \/ ScanChar
    \/ FixEnd

SpecScan == InitScan /\ [][NextScan]_vars

(***************************************************************************)
(* Vocabulary of the properties: what a diff text holds, read off the      *)
(* lines themselves.                                                       *)
(***************************************************************************)
NoTick(s) == \A i \in 1..Len(s) : s[i] # Tick

Count(s, c) == Cardinality({i \in 1..Len(s) : s[i] = c})

StartsWith(s, p) == Len(s) >= Len(p) /\ \A i \in 1..Len(p) : s[i] = p[i]

Last(s) == s[Len(s)]

\* The first line that matches the release header of old_version, or one past
\* the last line
StopAt ==
    IF \E b \in 1..Len(changelog_string) : boundary_match(changelog_string[b])
    THEN CHOOSE b \in 1..Len(changelog_string) :
             /\ boundary_match(changelog_string[b])
             /\ \A k \in 1..(b - 1) : ~boundary_match(changelog_string[k])
    ELSE Len(changelog_string) + 1

\* The bullet-start lines before the boundary
BulletIdx ==
    {i \in 1..(StopAt - 1) : StartsWith(changelog_string[i], <<" ", "*">>)}

\* The k-th bullet-start line
BulletAt(k) ==
    CHOOSE i \in BulletIdx : Cardinality({j \in BulletIdx : j < i}) = k - 1

\* The bullet-start line after line i, or the boundary
NextBullet(i) ==
    IF \E j \in BulletIdx : j > i
    THEN CHOOSE j \in BulletIdx : j > i /\ \A k \in BulletIdx : k > i => j <= k
    ELSE StopAt

\* A continuation line: begins with two spaces and is not blank
IsContLine(line) ==
    /\ StartsWith(line, <<" ", " ">>)
    /\ \E i \in 1..Len(line) : ~IsSpace(line[i])

\* The text of line i inside an entry: leading whitespace stripped and, when
\* esc holds, every '*.' written '\*.'
LineText(i, esc) ==
    IF esc THEN star_fix(lstrip(changelog_string[i]))
    ELSE lstrip(changelog_string[i])

\* The continuation lines among lines j..hi, each after one space
RECURSIVE ContText(_, _, _)
ContText(j, hi, esc) ==
    IF j > hi THEN <<>>
    ELSE (IF IsContLine(changelog_string[j])
          THEN <<" ">> \o LineText(j, esc) ELSE <<>>)
         \o ContText(j + 1, hi, esc)

\* The logical entry that starts at bullet-start line i
EntryText(i, esc) == LineText(i, esc) \o ContText(i + 1, NextBullet(i) - 1, esc)

\* The logical entries of the diff text, in diff order
ExpectedEntries(esc) ==
    [k \in 1..Cardinality(BulletIdx) |-> EntryText(BulletAt(k), esc)]

\* The k-th comma of s; position 0 before the first, Len(s) + 1 after the last
CommaAt(s, k) ==
    IF k = 0 THEN 0
    ELSE IF k > Count(s, ",") THEN Len(s) + 1
    ELSE CHOOSE i \in 1..Len(s) :
             s[i] = "," /\ Cardinality({j \in 1..(i - 1) : s[j] = ","}) = k - 1

\* s without the whitespace around it
Trimmed(s) ==
    LET ink == {i \in 1..Len(s) : ~IsSpace(s[i])}
    IN  IF ink = {} THEN <<>>
        ELSE SubSeq(s, CHOOSE i \in ink : \A j \in ink : i <= j,
                       CHOOSE i \in ink : \A j \in ink : i >= j)

\* The comma-separated pieces of a contributor payload, trimmed
PayloadNames(text) ==
    LET payload == SubSeq(text, Len(ContribPrefix) + 1, Len(text))
    IN  [k \in 1..(Count(payload, ",") + 1) |->
            Trimmed(SubSeq(payload, CommaAt(payload, k - 1) + 1,
                                    CommaAt(payload, k) - 1))]

\* The names of the contributor entries among the first n flushed buffers
RECURSIVE DivertedNames(_)
DivertedNames(n) ==
    IF n = 0 THEN <<>>
    ELSE DivertedNames(n - 1) \o
         (IF StartsWith(flushed[n], ContribPrefix)
          THEN PayloadNames(flushed[n]) ELSE <<>>)

\* The flushed buffers that are not contributor entries, in order
KeptBuffers == SelectSeq(flushed, LAMBDA b : ~StartsWith(b, ContribPrefix))

(***************************************************************************)
(* Properties of get_changelog, checked under Spec.                        *)
(***************************************************************************)

\* C1, as stated: when the scan is over, the entry sequence holds exactly one
\* entry per bullet-start line before the boundary, in diff order, and each is
\* the stripped bullet line followed by its stripped continuation lines, one
\* space between them.
EntriesAreFoldedBullets ==
    pc = "post" => changelog_list = ExpectedEntries(FALSE)

\* C1, amended: when the scan is over, exactly one buffer was flushed per
\* bullet-start line before the boundary, in diff order; each is the stripped
\* bullet line followed by its stripped non-blank continuation lines, one
\* space between them, every '*.' written '\*.'; the flushed buffers that are
\* not contributor entries are the entry sequence, each passed through
\* fix_line.
FlushedAreFoldedBullets ==
    pc = "post" =>
        /\ flushed = ExpectedEntries(TRUE)
        /\ changelog_list = [k \in 1..Len(KeptBuffers) |-> fix_line(KeptBuffers[k])]

\* C1 witness: a bullet, its continuation and a second bullet were scanned
\* and gave two entries.
FoldedTwoEntries ==
    /\ pc = "post"
    /\ Len(changelog_string) = 3
    /\ BulletIdx = {1, 3}
    /\ IsContLine(changelog_string[2])
    /\ Len(changelog_list) = 2
    /\ changelog_list[1] = LineText(1, FALSE) \o <<" ">> \o LineText(2, FALSE)

\* C2: the scan never moves past the first line that matches the release
\* header of old_version; when it has stopped there, one buffer has been
\* flushed per bullet-start line before that line, and the last of them is the
\* entry that was open, without anything of the boundary line.
BoundaryStopsScan ==
    \A b \in 1..Len(changelog_string) :
        (b = StopAt /\ rc = 0) =>
            /\ idx <= b
            /\ pc \in {"post", "done"} =>
                   /\ Len(flushed) = Cardinality(BulletIdx)
                   /\ BulletIdx # {} =>
                          Last(flushed) =
                              EntryText(BulletAt(Cardinality(BulletIdx)), TRUE)
                   /\ Len(contributors) = Len(DivertedNames(Len(flushed)))

\* C2 witness: the scan stopped at a boundary line with an entry open and a
\* bullet-start line after it.
StoppedBeforeLaterBullet ==
    /\ pc = "done"
    /\ StopAt = 2
    /\ BulletIdx = {1}
    /\ Len(changelog_string) = 3
    /\ StartsWith(changelog_string[3], <<" ", "*">>)
    /\ Len(flushed) = 1

\* C3, as stated: whenever the contributor collection is non-empty after the
\* scan, the result is an entry sequence that ends with the synthesized
\* contributor entry, and is not NO_ENTRIES.
ContributorsAlwaysReported ==
    (pc = "done" /\ contributors # <<>>) =>
        /\ result.kind = "ok"
        /\ StartsWith(Last(changelog_list), ContribPrefix)
        /\ ToSet(PayloadNames(Last(changelog_list))) = ToSet(contributors)

\* C3, amended: NO_ENTRIES is returned exactly when no entry was appended
\* during the scan, whatever the contributor collection holds; otherwise,
\* when the contributor collection is non-empty, the entry sequence ends with
\* one synthesized entry: the contributor prefix followed by the names without
\* duplicates, in increasing order, joined by a comma and a space.
ContributorsReportedWithEntries ==
    (pc = "done" /\ rc = 0) =>
        /\ result = NO_ENTRIES <=> KeptBuffers = <<>>
        /\ (KeptBuffers # <<>> /\ contributors # <<>>) =>
               LET names == PayloadNames(Last(changelog_list))
               IN  /\ Len(changelog_list) = Len(KeptBuffers) + 1
                   /\ StartsWith(Last(changelog_list), ContribPrefix)
                   /\ ToSet(names) = ToSet(contributors)
                   /\ \A i, j \in 1..Len(names) : i < j => StrLess(names[i], names[j])
                   /\ Last(changelog_list) = ContribPrefix \o join(<<",", " ">>, names)
                   /\ result.cooked_changelog = Cook(changelog_list)
        /\ (KeptBuffers # <<>> /\ contributors = <<>>) =>
               Len(changelog_list) = Len(KeptBuffers)

\* C3 witness: an entry and a repeated, unsorted contributor list gave a
\* result that ends with the synthesized entry.
SynthesizedEntryAppended ==
    /\ pc = "done"
    /\ result.kind = "ok"
    /\ Len(contributors) = 4
    /\ Cardinality(ToSet(contributors)) = 2
    /\ Len(changelog_list) = 2
    /\ StartsWith(Last(changelog_list), ContribPrefix)

\* C4: a flushed buffer that matches the contributor pattern is never passed
\* to fix_line and never appended to the entry sequence; the trimmed
\* comma-separated pieces of its payload are added to the contributor
\* collection.  Every other flushed buffer is passed to fix_line and the
\* result is appended to the entry sequence.
ContributorEntriesDiverted ==
    /\ fix_calls = KeptBuffers
    /\ contributors = DivertedNames(Len(flushed))
    /\ Len(changelog_list) >= Len(fix_calls)
    /\ \A k \in 1..Len(fix_calls) : changelog_list[k] = fix_line(fix_calls[k])
    /\ pc # "done" => Len(changelog_list) = Len(fix_calls)

\* C4 witness: one contributor entry and one other entry have been flushed.
OneDivertedOneKept ==
    /\ Len(flushed) = 2
    /\ Len(KeptBuffers) = 1
    /\ Len(contributors) = 2
    /\ Len(changelog_list) = 1

\* C8: a diff text without a bullet-start line before the boundary gives
\* NO_ENTRIES.
NoBulletsNoEntries ==
    (pc = "done" /\ BulletIdx = {}) => result = NO_ENTRIES

\* C8 witness: a diff text of continuation and other lines only returned
\* NO_ENTRIES.
OnlyContinuationsReturned ==
    /\ pc = "done"
    /\ rc = 0
    /\ BulletIdx = {}
    /\ \E i \in 1..Len(changelog_string) : IsContLine(changelog_string[i])
    /\ \E i \in 1..Len(changelog_string) : LineClass(changelog_string[i]) = "other"
    /\ result = NO_ENTRIES

(***************************************************************************)
(* Properties of fix_line, checked under SpecFix.                          *)
(***************************************************************************)
\* instring is pre, a span of content between two delimiters of n backticks
\* each, and post: the opening delimiter ends at i, the closing one starts at
\* j, and there is no other backtick
OneSpan(n, i, j) ==
    /\ n <= i
    /\ i + 1 < j
    /\ j + n - 1 <= Len(instring)
    /\ \A k \in 1..Len(instring) :
           instring[k] = Tick <=> (k \in (i - n + 1)..i \/ k \in j..(j + n - 1))

SpanPre(n, i) == SubSeq(instring, 1, i - n)
SpanContent(i, j) == SubSeq(instring, i + 1, j - 1)
SpanPost(n, j) == SubSeq(instring, j + n, Len(instring))

\* C5, as stated: a single-backtick span followed by exactly one underscore
\* comes out with the same delimiters and content and exactly two
\* underscores, the text around it unchanged.
NamedLinkMadeAnonymous ==
    fpc = "done" =>
        \A i, j \in 1..Len(instring) :
            (/\ OneSpan(1, i, j)
             /\ StartsWith(SpanPost(1, j), <<"_">>)
             /\ ~StartsWith(SpanPost(1, j), <<"_", "_">>)) =>
                fresult = SpanPre(1, i) \o <<Tick>> \o SpanContent(i, j)
                              \o <<Tick, "_">> \o SpanPost(1, j)

\* C6, as stated: a text whose only backticks delimit a double-backtick
\* literal span is returned unchanged, whatever the span holds and whatever
\* follows it.
LiteralSpanUntouched ==
    fpc = "done" =>
        \A i, j \in 1..Len(instring) : OneSpan(2, i, j) => fresult = instring

\* C7: a text without a backtick is returned exactly as given.
FastPathIdentity ==
    (fpc = "done" /\ NoTick(instring)) => fresult = instring

\* C7 witness: a text without a backtick that has an underscore and ends in
\* whitespace was returned.
FastPathKeptTrailingSpace ==
    /\ fpc = "done"
    /\ NoTick(instring)
    /\ Count(instring, "_") > 0
    /\ Len(instring) > 1
    /\ Last(instring) = " "
    /\ fresult = instring

\* C9, as stated: around a span that no underscore follows, no underscore is
\* added: the result has as many underscores as the text had.
OnlyCloserUnderscoresDoubled ==
    fpc = "done" =>
        \A n \in 1..2 : \A i, j \in 1..Len(instring) :
            (OneSpan(n, i, j) /\ ~StartsWith(SpanPost(n, j), <<"_">>)) =>
                Count(fresult, "_") = Count(instring, "_")

\* C10, as stated: a single-backtick span that no underscore follows comes
\* out as a double-backtick span with the same content, the text around it
\* unchanged.
EmphasisSpanDoubled ==
    fpc = "done" =>
        \A i, j \in 1..Len(instring) :
            (OneSpan(1, i, j) /\ ~StartsWith(SpanPost(1, j), <<"_">>)) =>
                fresult = SpanPre(1, i) \o <<Tick, Tick>> \o SpanContent(i, j)
                              \o <<Tick, Tick>> \o SpanPost(1, j)

(***************************************************************************)
(* Properties of fix_line on entries, checked under SpecEntry.             *)
(***************************************************************************)
\* The number of backticks s starts with
LeadTicks(s) ==
    CHOOSE n \in 0..Len(s) :
        /\ \A i \in 1..n : s[i] = Tick
        /\ n = Len(s) \/ s[n + 1] # Tick

\* The lengths of the maximal runs of backticks of s, in order
RECURSIVE TickRuns(_)
TickRuns(s) ==
    IF s = <<>> THEN <<>>
    ELSE IF s[1] # Tick THEN TickRuns(Tail(s))
    ELSE <<LeadTicks(s)>> \o TickRuns(SubSeq(s, LeadTicks(s) + 1, Len(s)))

\* No span touches the next one: the runs of backticks pair up, in order, as
\* an opening and a closing delimiter of the same length, one or two
SpansApart(s) ==
    LET runs == TickRuns(s)
    IN  /\ Len(runs) % 2 = 0
        /\ \A k \in 1..Len(runs) :
               /\ runs[k] \in {1, 2}
               /\ k % 2 = 1 => runs[k] = runs[k + 1]

\* C11, as stated: for every entry built from plain text and spans, fix_line
\* applied to its own result changes nothing more.
RerunChangesNothing ==
    fpc = "done" => fix_line(fresult) = fresult

\* C11, amended: for every entry built from plain text and spans in which no
\* span touches the next one, fix_line applied to its own result changes
\* nothing more; an anonymous hyperlink in the result keeps its single
\* backticks and its two underscores.
RerunChangesNothingApart ==
    (fpc = "done" /\ SpansApart(instring)) => fix_line(fresult) = fresult

\* C11 witness: an entry with a named hyperlink and an emphasis span, apart,
\* was rewritten, and the result holds an anonymous hyperlink.
RewrittenEntryIsStable ==
    /\ fpc = "done"
    /\ SpansApart(instring)
    /\ TickRuns(instring) = <<1, 1, 1, 1>>
    /\ fresult # instring
    /\ TickRuns(fresult) = <<1, 1, 2, 2>>
    /\ \E i \in 1..(Len(fresult) - 2) :
           fresult[i] = Tick /\ fresult[i + 1] = "_" /\ fresult[i + 2] = "_"

(***************************************************************************)
(* More properties of get_changelog, checked under Spec.                   *)
(***************************************************************************)
\* The names of the contributor entries among the first n bullet-start
\* lines, each entry taken with its continuation lines
RECURSIVE FoldedNames(_)
FoldedNames(n) ==
    IF n = 0 THEN <<>>
    ELSE FoldedNames(n - 1) \o
         (IF StartsWith(EntryText(BulletAt(n), TRUE), ContribPrefix)
          THEN PayloadNames(EntryText(BulletAt(n), TRUE)) ELSE <<>>)

\* C12, as stated: no contributor name is taken from a continuation line:
\* every name collected is one of the comma-separated pieces of a contributor
\* bullet-start line itself.
NoNameFromContinuation ==
    \A n \in ToSet(contributors) :
        \E i \in BulletIdx :
            /\ StartsWith(LineText(i, TRUE), ContribPrefix)
            /\ n \in ToSet(PayloadNames(LineText(i, TRUE)))

\* C12, amended: the continuation lines after a contributor bullet-start line
\* are folded into its buffer like those of any other bullet, and the names
\* are the comma-separated pieces of the folded text, continuation text
\* included.
NamesFromFoldedContributorEntry ==
    (pc \in {"post", "done"} /\ rc = 0) =>
        contributors = FoldedNames(Cardinality(BulletIdx))

\* C12 witness: a contributor bullet-start line and a continuation line gave
\* a name that ends with the text of the continuation line.
NameHoldsContinuationText ==
    /\ pc = "done"
    /\ Len(changelog_string) >= 2
    /\ changelog_string[1] = LineContribBA
    /\ changelog_string[2] = LineCont
    /\ Len(contributors) = 2
    /\ contributors[2] = <<"A", " ", "c">>

OnlyExactTriplesCollapsed ==
    fpc = "scan" =>
        LET runs == TickRuns(double_and_triple_ticks(instring))
        IN  TickRuns(chars) =
                [k \in 1..Len(runs) |-> IF runs[k] = 3 THEN 2 ELSE runs[k]]

\* C14, amended: the second substitution rewrites every three backticks in a
\* row, found left to right without overlap, to two, inside longer runs too:
\* a run of m backticks reaches the scanner with 2 * (m div 3) + (m mod 3)
\* backticks, so three become two and four become three.
EveryTripleCollapsed ==
    fpc = "scan" =>
        LET runs == TickRuns(double_and_triple_ticks(instring))
        IN  TickRuns(chars) =
                [k \in 1..Len(runs) |-> 2 * (runs[k] \div 3) + (runs[k] % 3)]

\* C14 witness: a run of four backticks left by the first substitution has
\* reached the scanner as a run of three.
RunOfFourBecameThree ==
    /\ fpc = "scan"
    /\ TickRuns(double_and_triple_ticks(instring)) = <<4>>
    /\ TickRuns(chars) = <<3>>

(***************************************************************************)
(* More properties of get_changelog, checked under Spec.                   *)
(***************************************************************************)
\* The line the loop is at starts no entry and extends none: it is blank, or
\* begins neither with ' *' nor with two spaces, or is a continuation line
\* met while the buffer is empty
IgnoredLine ==
    /\ pc = "loop"
    /\ idx <= Len(changelog_string)
    /\ LET line == changelog_string[idx]
       IN  \/ Len(line) = 0
           \/ \A i \in 1..Len(line) : IsSpace(line[i])
           \/ ~StartsWith(line, <<" ", "*">>) /\ ~StartsWith(line, <<" ", " ">>)
           \/ IsContLine(line) /\ line_buffer = <<>>

\* C15: a step of the scan at a blank line, at a line of any other shape, or
\* at a continuation line met while no entry is open leaves the buffer, the
\* entries and the contributors as they were; and as long as no bullet-start
\* line has been consumed all three are empty, so a continuation line ahead
\* of the first bullet has no effect.
IgnoredLinesChangeNothing ==
    /\ [][IgnoredLine =>
            /\ line_buffer' = line_buffer
            /\ changelog_list' = changelog_list
            /\ contributors' = contributors]_vars
    /\ []((/\ pc = "loop"
           /\ \A i \in 1..(idx - 1) :
                  i <= Len(changelog_string) =>
                      ~StartsWith(changelog_string[i], <<" ", "*">>))
          => /\ line_buffer = <<>>
             /\ changelog_list = <<>>
             /\ contributors = <<>>)

\* C15 witness: a continuation line and a hunk marker were consumed ahead of
\* the first bullet, and nothing is buffered.
ContinuationAheadOfBulletDropped ==
    /\ pc = "loop"
    /\ idx = 3
    /\ Len(changelog_string) = 3
    /\ changelog_string[1] = LineCont
    /\ changelog_string[2] = LineHunk
    /\ changelog_string[3] = LineBulletA
    /\ line_buffer = <<>>
    /\ changelog_list = <<>>

\* The release header of old_version written out: one space, the label
\* character for character, one space, a date in parentheses, nothing more
ExactBoundary(line) ==
    LET n == Len(old_version)
        IsDigit(c) == c \in {"0", "1", "2", "3", "4", "5", "6", "7", "8", "9"}
    IN  /\ Len(line) = n + 14
        /\ line[1] = " "
        /\ SubSeq(line, 2, n + 1) = old_version
        /\ line[n + 2] = " "
        /\ line[n + 3] = "("
        /\ \A k \in {4, 5, 6, 7, 9, 10, 12, 13} : IsDigit(line[n + k])
        /\ line[n + 8] = "-"
        /\ line[n + 11] = "-"
        /\ line[n + 14] = ")"

\* C16: when the scan has stopped at a line, that line is the release header
\* of old_version exactly: the label character for character and nothing
\* after the date.
StopsOnlyAtExactBoundary ==
    (/\ rc = 0
     /\ pc \in {"flush", "post", "done"}
     /\ idx <= Len(changelog_string))
        => ExactBoundary(changelog_string[idx])

\* C17: when the scanner ends with a span accumulated, in whatever state,
\* the result is the output so far followed by the span between two
\* backticks on each side.
PendingSpanFlushedLiteral ==
    (fpc = "done" /\ HasTick(instring) /\ tickbuf # <<>>)
        => fresult = output \o <<Tick, Tick>> \o tickbuf \o <<Tick, Tick>>

\* C17 witness: the unterminated span of one backtick and 'a' has come out
\* as a literal span.
UnterminatedSpanClosed ==
    /\ fpc = "done"
    /\ instring = <<Tick, "a">>
    /\ state = SAW_TWO_LEADING_TICKS_STATE
    /\ tickbuf = <<"a">>
    /\ fresult = <<Tick, Tick, "a", Tick, Tick>>

\* C18: the string the scanner walks has no backtick on its own, every
\* maximal run of backticks in it has two or more; and whenever the scanner
\* has seen one closing backtick, the character it reads next is a backtick.
NoIsolatedTickReachesScanner ==
    fpc = "scan" =>
        /\ \A k \in 1..Len(TickRuns(chars)) : TickRuns(chars)[k] >= 2
        /\ (state = SAW_ONE_TRAILING_TICK_STATE /\ pos <= Len(chars))
               => chars[pos] = Tick

\* C18 witness: a span written with single backticks has been read up to its
\* first closing backtick, and the second one is next.
OneTrailingTickThenTick ==
    /\ fpc = "scan"
    /\ instring = <<Tick, "a", Tick, "a">>
    /\ state = SAW_ONE_TRAILING_TICK_STATE
    /\ pos <= Len(chars)
    /\ chars[pos] = Tick
    /\ tickbuf = <<"a">>

\* s without its backticks and underscores
RECURSIVE PlainText(_)
PlainText(s) ==
    IF s = <<>> THEN <<>>
    ELSE (IF s[1] \in {Tick, "_"} THEN <<>> ELSE <<s[1]>>) \o PlainText(Tail(s))

\* C19: with backticks and underscores deleted, the result of fix_line is
\* the input with the same deletion, short of nothing but whitespace at its
\* end: no other character is dropped, added or moved.
TextPreserved ==
    fpc = "done" =>
        LET was == PlainText(instring)
            now == PlainText(fresult)
        IN  /\ Len(now) <= Len(was)
            /\ now = SubSeq(was, 1, Len(now))
            /\ \A i \in (Len(now) + 1)..Len(was) : IsSpace(was[i])

\* C19 witness: a rewritten entry with text before and inside a span and
\* whitespace after it; only the backticks and the last space differ.
TextKeptAroundSpan ==
    /\ fpc = "done"
    /\ instring = <<"a", Tick, "a", Tick, " ">>
    /\ fresult = <<"a", Tick, Tick, "a", Tick, Tick>>
    /\ PlainText(fresult) = <<"a", "a">>

\* The bullet-start lines the loop has consumed
BulletsConsumed ==
    Cardinality({i \in 1..(idx - 1) :
                     /\ i <= Len(changelog_string)
                     /\ StartsWith(changelog_string[i], <<" ", "*">>)})

\* The flushed buffers that were taken as contributor entries
DivertedCount ==
    Cardinality({k \in 1..Len(flushed) : StartsWith(flushed[k], ContribPrefix)})

\* C20: all through the scan the bullet-start lines consumed are as many as
\* the entries appended plus the buffers diverted as contributor entries plus
\* one for an open buffer; once the last buffer is flushed, every bullet
\* consumed has been flushed once, as an entry or as a contributor entry,
\* which is one flush per bullet-start line ahead of the boundary.
EveryBulletFlushedOnce ==
    /\ pc \in {"loop", "flush"} =>
           BulletsConsumed = Len(changelog_list) + DivertedCount
                                 + (IF line_buffer # <<>> THEN 1 ELSE 0)
    /\ pc \in {"loop", "flush", "post"} =>
           Len(flushed) = Len(changelog_list) + DivertedCount
    /\ pc \in {"post", "done"} =>
           /\ Len(flushed) = BulletsConsumed
           /\ Len(fix_calls) + DivertedCount = BulletsConsumed
           /\ rc = 0 => BulletsConsumed = Cardinality(BulletIdx)

\* C20 witness: the scan stopped at the boundary with a contributor entry
\* open after one flushed entry, and the last flush emptied the count.
TwoBulletsTwoFlushes ==
    /\ pc = "post"
    /\ idx = 3
    /\ Len(changelog_string) = 3
    /\ changelog_string[3] = LineBoundary
    /\ BulletsConsumed = 2
    /\ Len(changelog_list) = 1
    /\ DivertedCount = 1

====
